---- MODULE Spec2Model ----
(***************************************************************************)
(* Model of cmd/wsclient/main.go: the relay client that dials a WebSocket  *)
(* server, then runs Server.Run: a loop that arms a read deadline, polls   *)
(* the heartbeat ticker and otherwise reads one frame, classifies it with  *)
(* gjson and dispatches it to a RequestHandler.                            *)
(*                                                                         *)
(* Time is counted in units of 10 seconds and kept relative (time left to  *)
(* the next tick, to the read deadline, to the cache expiry), so the state *)
(* stays finite while the loop runs forever.                               *)
(***************************************************************************)
EXTENDS Integers, Sequences, FiniteSets, TLC

\* ---------------------------------------------------------------- constants
\* heartbeatInterval = 30 s, readTimeout = 40 s, cache expiry = 120 s
heartbeatInterval == 3
readTimeout == 4
cacheExpiry == 12

\* ------------------------------------------------------------------- bounds
\* longest time a backend call (List, Chat) is let to take, in 10 s units
MaxBackendTime == 4
\* number of failed Connect attempts explored before the dial must succeed
MaxDialFails == 2
\* consecutive read timeouts counted before the count saturates
MaxStreak == 3
\* received messages and heartbeat ticks in one run of the ConnectionManager server
MaxEvents == 2
\* ticks, inbound messages and API calls in one run of a WebSocketManager
MaxCalls == 3
\* longest proper prefix of the test plaintext that is encrypted
MaxPlainLen == 3
\* longest byte sequence whose encoding is handed to Decrypt directly
MaxRawLen == 13
\* the Sleep between two Connect attempts, in seconds
dialBackoff == 5
\* AES-256 key length and AES-GCM nonce length of package util, in bytes
keySize == 32
nonceSize == 12
\* length of the tag cipher.NewGCM appends, in bytes
tagSize == 16

\* ------------------------------------------------------------ input domains
\* a nil error, an absent value
Nil == "nil"
\* a nil pointer to a struct
NilPtr == [nil |-> TRUE]
\* action tags an inbound frame can carry ("" = key missing or empty)
ActionTags == {"", "list_model", "chat", "ping"}
\* type labels an inbound frame can carry
TypeTags == {"client_to_server", "heartbeat"}
\* ids uuid.New() can return on this side
GenIds == {"u1"}
\* request_id values an inbound frame can carry under the key
FrameIds == {"", "r1"} \cup GenIds
\* results the backend List call can return
ModelLists == {"L1", "L2"}
\* replies the backend Chat call can return
ChatReplies == {"hi"}
\* addresses typed at the prompt ("" = nothing typed)
Addresses == {"", "ws://host/ws"}

\* the params object of a frame: absent or empty, or a chat payload of a
\* model name and two messages
NoParams == [model_name |-> "", messages |-> <<>>]
ChatParams ==
    [model_name |-> "llama3",
     messages |-> << [role |-> "system", content |-> "be brief"],
                     [role |-> "user", content |-> "hello"] >>]
FrameParams == {NoParams, ChatParams}

\* What gjson extracts from the bytes of one frame. valid tells whether the
\* bytes are well-formed JSON; gjson never validates, so an ill-formed frame
\* (truncated object, trailing garbage) can still yield any of the keys, and
\* bytes holding no object at all yield none.
Frames ==
    { f \in [valid : BOOLEAN, hasId : BOOLEAN, request_id : FrameIds,
             type : TypeTags \cup {""}, action : ActionTags, params : FrameParams] :
        /\ ~f.hasId => f.request_id = ""
        /\ f.action # "chat" => f.params = NoParams }

VARIABLES
    pc,          \* position of the main goroutine
    connected,   \* WebSocketClient.conn has been set by Connect
    connClosed,  \* wsClient.Close() has run
    dialFails,   \* failed Connect attempts
    slept,       \* seconds main has slept between Connect attempts
    exitCode,    \* -1 while the process lives, else its exit status
    tickReady,   \* a tick is buffered in heartbeatTicker.C
    toTick,      \* time left until the ticker fires next
    deadline,    \* time left until the read deadline, -1 = none set
    cacheLeft,   \* time left until the "models" cache entry expires, -1 = no entry
    cacheVal,    \* the cached model list
    issued,      \* request ids generated by this side
    msg,         \* the Message being handled in this iteration
    out,         \* envelopes written on the Conn in this iteration
    logged,      \* log lines written in this iteration
    calls,       \* handlers resolved and invoked in this iteration
    steps,       \* what this iteration did: "arm", "heartbeat", "read"
    runErr,      \* Server.Run has returned this error
    timeouts,    \* read timeouts in a row, up to MaxStreak
    beats,       \* sendHeartbeat calls since that row began, up to MaxStreak
    backend,     \* calls of the backend (Chat, List) made in this iteration
    answered,    \* a response was written in an earlier iteration of the session
    \* --- the ConnectionManager server (handleWebSocketConnection)
    cmState,     \* per goroutine: "new", "running", "done"
    cmTodo,      \* per goroutine: the registry operations it has still to do
    cmBusy,      \* per goroutine: its first operation is in progress
    cmLeft,      \* received messages and heartbeat ticks still to come
    mu,          \* the goroutine holding cm.mu, or Nobody
    connections, \* cm.connections: per conn its group, or Nil when absent
    groups,      \* cm.groups: per group name its set of conns (none = no entry)
    connOpen,    \* per conn: not yet closed
    cmPanic,     \* a goroutine of the server has panicked
    \* --- package util (Encrypt, Decrypt)
    key,         \* the key given to Encrypt
    key2,        \* the key given to Decrypt
    plaintext,   \* the plaintext given to Encrypt
    nonce,       \* the nonce Encrypt read from the random source
    encrypted,   \* what Encrypt returned, NotCalled before the call
    ciphertext,  \* the string given to Decrypt
    decrypted,   \* what Decrypt returned, NotCalled before the call
    \* --- package wsutils (WebSocketManager)
    wsPc,        \* per goroutine: its position
    wsConn,      \* per goroutine: the connection whose WriteMessage it is inside, or ""
    wsPending,   \* clients ListenBroadcasts has still to write to in its range loop
    wsClients,   \* m.clients
    wsMu,        \* the goroutine holding m.mu, or Nobody
    wsOpen,      \* per connection: upgraded and not yet closed
    wsCancelled, \* m.cancel() has been called (m.ctx is done)
    wsLeft       \* ticks, inbound messages and API calls still to come

clientVars == <<pc, connected, connClosed, dialFails, slept, exitCode, tickReady,
                toTick, deadline, cacheLeft, cacheVal, issued, msg, out, logged,
                calls, steps, runErr, timeouts, beats, backend, answered>>
cmVars == <<cmState, cmTodo, cmBusy, cmLeft, mu, connections, groups, connOpen, cmPanic>>
utilVars == <<key, key2, plaintext, nonce, encrypted, ciphertext, decrypted>>
wsVars == <<wsPc, wsConn, wsPending, wsClients, wsMu, wsOpen, wsCancelled, wsLeft>>
vars == <<clientVars, cmVars, utilVars, wsVars>>
\* the variables of the other programs, which the relay client never touches
notClient == <<cmVars, utilVars, wsVars>>

connVars == <<connected, connClosed, dialFails, slept>>
timeVars == <<tickReady, toTick, deadline, cacheLeft>>
iterVars == <<msg, out, logged, calls, steps, backend>>
streakVars == <<timeouts, beats>>
UpTo(n) == IF n < MaxStreak THEN n + 1 ELSE MaxStreak

\* ------------------------------------------------------------ time passing
\* The ticker fires every heartbeatInterval; its channel buffers one tick and
\* further ticks are dropped while it is full.
TickAfter(d) == d >= toTick
ToTickAfter(d) ==
    IF d >= toTick
    THEN heartbeatInterval - ((d - toTick) % heartbeatInterval)
    ELSE toTick - d
LeftAfter(left, d) == IF left < 0 THEN -1 ELSE IF left - d < 0 THEN -1 ELSE left - d
\* the read deadline keeps counting down to 0 (expired); -1 only means unset
DeadlineAfter(d) == IF deadline < 0 THEN -1 ELSE IF deadline - d < 0 THEN 0 ELSE deadline - d


\* ------------------------------------------------------------------ errors
ErrUnknownAction == "unknown action"
ErrBackend == "backend error"
ErrWrite == "write error"
ErrRequestNil == "request is nil"
ErrActionEmpty == "action is empty"
ErrResponseNil == "response is nil"
ErrTimeout == "read timeout"
ErrRead == "read error"
ErrDeadline == "set deadline error"

\* --------------------------------------------------------- pure functions
\* the zero value of CloudRequest.Params: no model name, nil Messages
ZeroParams == [ModelName |-> "", Messages |-> <<>>]

\* ParseMessage with the classification lost: every frame becomes a Request
ParseMessageAsRequest(f) ==
    [Raw |-> f,
     Request |-> [Type |-> f.type, Action |-> f.action, RequestID |-> f.request_id,
                  Params |-> ZeroParams],
     Response |-> NilPtr]

\* readAndParseMessage after a successful read: a frame holding the key
\* "request_id" becomes a Message with an empty Response and no Request; any
\* other frame becomes a Message with a Request built from type and action.
ParseMessage(f) ==
    IF f.hasId
    THEN [Raw |-> f, Request |-> NilPtr,
          Response |-> [Type |-> "", Action |-> "", RequestID |-> "",
                        Data |-> [kind |-> "null"], Status |-> ""]]
    ELSE [Raw |-> f,
          Request |-> [Type |-> f.type, Action |-> f.action,
                       RequestID |-> f.request_id, Params |-> ZeroParams],
          Response |-> NilPtr]

\* CreateHandler with the default case falling into the list handler
CreateHandlerNoDefault(action) ==
    CASE action = "chat" -> "ChatHandler"
      [] OTHER           -> "ListModelHandler"

\* HandlerFactory.CreateHandler
CreateHandler(action) ==
    CASE action = "list_model" -> "ListModelHandler"
      [] action = "chat"       -> "ChatHandler"
      [] OTHER                 -> "DefaultHandler"

\* what a call of the backend can return: an error or a value
BackendResults(handler) ==
    CASE handler = "ListModelHandler" ->
            {[err |-> ErrBackend, val |-> Nil]}
            \cup {[err |-> Nil, val |-> l] : l \in ModelLists}
      [] handler = "ChatHandler" ->
            {[err |-> ErrBackend, val |-> Nil]}
            \cup {[err |-> Nil, val |-> r] : r \in ChatReplies}
      [] OTHER -> {[err |-> Nil, val |-> Nil]}

\* ListModels that never looks into the cache
ListModelsNoCache(b) == [err |-> b.err, val |-> b.val, hit |-> FALSE]

\* DefaultOllamaClient.ListModels: the cached list when the cache holds an
\* unexpired entry, else the backend's answer b. hit tells which.
ListModels(b) ==
    IF cacheLeft >= 0
    THEN [err |-> Nil, val |-> cacheVal, hit |-> TRUE]
    ELSE [err |-> b.err, val |-> b.val, hit |-> FALSE]

\* the handler reaches the backend in this call
BackendCalled(handler) ==
    \/ handler = "ChatHandler"
    \/ handler = "ListModelHandler" /\ cacheLeft < 0

\* the arguments ChatHandler.Handle gives to ollamaClient.Chat: the model name
\* of the request and its messages copied one by one, in order
ChatArgs(req) ==
    [model |-> req.Params.ModelName,
     messages |-> [i \in 1..Len(req.Params.Messages) |->
                      [Role |-> req.Params.Messages[i].Role,
                       Content |-> req.Params.Messages[i].Content]]]

\* the calls of the backend that Handle of this handler makes for req, with
\* the answer b each got
BackendCalls(handler, req, b) ==
    CASE handler = "ChatHandler" ->
            << [op |-> "Chat", model |-> ChatArgs(req).model,
                messages |-> ChatArgs(req).messages, err |-> b.err, val |-> b.val] >>
      [] handler = "ListModelHandler" /\ cacheLeft < 0 ->
            << [op |-> "List", model |-> "", messages |-> <<>>, err |-> b.err,
                val |-> b.val] >>
      [] OTHER -> <<>>

\* ListModelHandler.Handle
ListModelHandle(req, b) ==
    LET m == ListModels(b) IN
    IF m.err # Nil
    THEN [resp |-> NilPtr, err |-> m.err]
    ELSE [resp |-> [Type |-> "client_to_server", Action |-> req.Action,
                    RequestID |-> req.RequestID,
                    Data |-> [kind |-> "models", list |-> m.val],
                    Status |-> "done"],
          err |-> Nil]

\* ChatHandle echoing the request's type instead of the response label
ChatHandleEchoType(req, b) ==
    IF b.err # Nil
    THEN [resp |-> NilPtr, err |-> b.err]
    ELSE [resp |-> [Type |-> req.Type, Action |-> req.Action,
                    RequestID |-> req.RequestID,
                    Data |-> [kind |-> "message", role |-> "assistant",
                             content |-> b.val],
                    Status |-> "done"],
          err |-> Nil]

\* ChatHandler.Handle
ChatHandle(req, b) ==
    IF b.err # Nil
    THEN [resp |-> NilPtr, err |-> b.err]
    ELSE [resp |-> [Type |-> "client_to_server", Action |-> req.Action,
                    RequestID |-> req.RequestID,
                    Data |-> [kind |-> "message", role |-> "assistant",
                             content |-> b.val],
                    Status |-> "done"],
          err |-> Nil]

\* DefaultHandler.Handle
DefaultHandle(req) == [resp |-> NilPtr, err |-> ErrUnknownAction]

\* RequestHandler.Handle, by the handler's dynamic type
Handle(handler, req, b) ==
    CASE handler = "ListModelHandler" -> ListModelHandle(req, b)
      [] handler = "ChatHandler"      -> ChatHandle(req, b)
      [] OTHER                        -> DefaultHandle(req)

\* json.Marshal of a CloudResponse: request_id and status are omitempty
MarshalResponse(r) ==
    [type |-> r.Type, action |-> r.Action, data |-> r.Data]
    @@ (IF r.RequestID # "" THEN [request_id |-> r.RequestID] ELSE <<>>)
    @@ (IF r.Status # "" THEN [status |-> r.Status] ELSE <<>>)

\* json.Marshal of the heartbeat CloudRequest built by sendHeartbeat
MarshalHeartbeat(id) ==
    [type |-> "heartbeat", action |-> "ping", request_id |-> id,
     params |-> [model_name |-> ""]]

\* sendResponse handing the envelope to a writer that sends it later
sendResponseDeferred(resp, writeOk) == [err |-> Nil, out |-> <<>>]

\* Server.sendResponse: the error it returns and the bytes it wrote
sendResponse(resp, writeOk) ==
    IF writeOk
    THEN [err |-> Nil, out |-> <<MarshalResponse(resp)>>]
    ELSE [err |-> ErrWrite, out |-> <<>>]

\* handleServerRequest turning unknown actions away without a handler
handleServerRequestSkipUnknown(m, b, writeOk) ==
    IF m.Request = NilPtr
    THEN [err |-> ErrRequestNil, calls |-> <<>>, out |-> <<>>]
    ELSE IF m.Request.Action \notin {"list_model", "chat"}
    THEN [err |-> ErrActionEmpty, calls |-> <<>>, out |-> <<>>]
    ELSE LET handler == CreateHandler(m.Request.Action)
             h == Handle(handler, m.Request, b)
         IN  IF h.err # Nil
             THEN [err |-> h.err, calls |-> <<handler>>, out |-> <<>>]
             ELSE LET s == sendResponse(h.resp, writeOk)
                  IN  [err |-> s.err, calls |-> <<handler>>, out |-> s.out]

\* handleServerRequest answering a failed Handle with an error envelope
handleServerRequestReplyOnError(m, b, writeOk) ==
    IF m.Request = NilPtr
    THEN [err |-> ErrRequestNil, calls |-> <<>>, out |-> <<>>]
    ELSE IF m.Request.Action = ""
    THEN [err |-> ErrActionEmpty, calls |-> <<>>, out |-> <<>>]
    ELSE LET handler == CreateHandler(m.Request.Action)
             h == Handle(handler, m.Request, b)
         IN  IF h.err # Nil
             THEN [err |-> h.err, calls |-> <<handler>>,
                   out |-> <<[type |-> "client_to_server", action |-> m.Request.Action,
                              data |-> [kind |-> "null"], status |-> "error"]>>]
             ELSE LET s == sendResponse(h.resp, writeOk)
                  IN  [err |-> s.err, calls |-> <<handler>>, out |-> s.out]

\* Server.handleServerRequest for Message m, backend answer b and a Conn
\* whose write succeeds iff writeOk: the error returned, the handlers called
\* and the bytes written.
handleServerRequest(m, b, writeOk) ==
    IF m.Request = NilPtr
    THEN [err |-> ErrRequestNil, calls |-> <<>>, out |-> <<>>]
    ELSE IF m.Request.Action = ""
    THEN [err |-> ErrActionEmpty, calls |-> <<>>, out |-> <<>>]
    ELSE LET handler == CreateHandler(m.Request.Action)
             h == Handle(handler, m.Request, b)
         IN  IF h.err # Nil
             THEN [err |-> h.err, calls |-> <<handler>>, out |-> <<>>]
             ELSE LET s == sendResponse(h.resp, writeOk)
                  IN  [err |-> s.err, calls |-> <<handler>>, out |-> s.out]

\* Server.processMessage: reading msg.Request.Action of a Message without a
\* Request is a nil pointer dereference, which panics before any handler is
\* resolved.
processMessage(m, b, writeOk) ==
    IF m.Request = NilPtr
    THEN [panic |-> TRUE, err |-> Nil, calls |-> <<>>, out |-> <<>>]
    ELSE LET handler == CreateHandler(m.Request.Action)
             h == Handle(handler, m.Request, b)
         IN  IF h.err # Nil
             THEN [panic |-> FALSE, err |-> h.err, calls |-> <<handler>>, out |-> <<>>]
             ELSE IF h.resp = NilPtr
             THEN [panic |-> FALSE, err |-> ErrResponseNil, calls |-> <<handler>>,
                   out |-> <<>>]
             ELSE LET s == sendResponse(h.resp, writeOk)
                  IN  [panic |-> FALSE, err |-> s.err, calls |-> <<handler>>,
                       out |-> s.out]

\* AfterReadError with a timeout ending the loop
AfterReadErrorTimeoutFatal(err) == IF err = ErrTimeout THEN "returned" ELSE "arm"

\* Server.Run after readAndParseMessage returned err: the loop continues for
\* a timeout and for every other error alike.
AfterReadError(err) == "arm"

\* Server.Run after sendHeartbeat returned err: logged, the loop continues.
AfterHeartbeat(err) == "arm"

\* Run returning the error of the dispatch
AfterDispatchFatal(err) == IF err # Nil THEN "returned" ELSE "arm"

\* Server.Run after handleServerRequest or processMessage returned err:
\* logged, the loop continues.
AfterDispatch(err) == "arm"

\* select with the ticker case lost: the loop always goes on to read
SelectCaseReadOnly == "default"

\* the select of Server.Run: the ticker case when a tick is buffered, else
\* the default case (a select with a default never blocks)
SelectCase == IF tickReady THEN "heartbeat" ELSE "default"

\* Run going on to the select although SetReadDeadline failed
AfterSetReadDeadlineIgnoreError(err) == "select"

\* Server.Run after SetReadDeadline returned err: Run returns it.
AfterSetReadDeadline(err) == IF err # Nil THEN "returned" ELSE "select"

\* the handler that serves the Message m, or Nil when none is resolved
HandlerFor(m) ==
    IF m.Request = NilPtr \/ (m.Response = NilPtr /\ m.Request.Action = "")
    THEN Nil
    ELSE CreateHandler(m.Request.Action)

NoMsg == [Raw |-> NilPtr, Request |-> NilPtr, Response |-> NilPtr]

\* -------------------------------------------------------------------- Init
\* the relay client before main runs
ClientInit ==
    /\ pc = "start"
    /\ connected = FALSE
    /\ connClosed = FALSE
    /\ dialFails = 0
    /\ slept = 0
    /\ exitCode = -1
    /\ tickReady = FALSE
    /\ toTick = heartbeatInterval
    /\ deadline = -1
    /\ cacheLeft = -1
    /\ cacheVal = Nil
    /\ issued = {}
    /\ msg = NoMsg
    /\ out = <<>>
    /\ logged = <<>>
    /\ calls = <<>>
    /\ steps = <<>>
    /\ runErr = Nil
    /\ timeouts = 0
    /\ beats = 0
    /\ backend = <<>>
    /\ answered = FALSE

\* the goroutines of the ConnectionManager server: per connection the request
\* handler and the heartbeat goroutine it starts
Conns == {"c1", "c2"}
GroupNames == {"g1", "g2"}
Goroutines == {"handler", "heartbeat"} \X Conns
\* the holder of an unlocked mutex
Nobody == <<"nobody", "">>

\* the ConnectionManager server with no request accepted yet
\* (NewConnectionManager: both maps empty)
CMIdle ==
    /\ cmState = [g \in Goroutines |-> "new"]
    /\ cmTodo = [g \in Goroutines |-> <<>>]
    /\ cmBusy = [g \in Goroutines |-> "none"]
    /\ cmLeft = MaxEvents
    /\ mu = Nobody
    /\ connections = [c \in Conns |-> Nil]
    /\ groups = [n \in GroupNames |-> {}]
    /\ connOpen = [c \in Conns |-> FALSE]
    /\ cmPanic = FALSE

\* the result of a call of Encrypt or Decrypt that has not been made
NotCalled == [val |-> <<>>, err |-> "not called"]

\* Encrypt and Decrypt before they are called; a string and a []byte are the
\* sequence of their bytes
CallsIdle ==
    /\ nonce = <<>>
    /\ encrypted = NotCalled
    /\ ciphertext = <<>>
    /\ decrypted = NotCalled

\* package util with no call made yet
UtilIdle ==
    /\ key = <<>>
    /\ key2 = <<>>
    /\ plaintext = <<>>
    /\ CallsIdle
\* the goroutines around one WebSocketManager: per upgraded connection the
\* ping task and the receive loop, the goroutine running ListenBroadcasts, and
\* the application's goroutines calling SendMessage, Broadcast and Close
WSConns == {"w1", "w2"}
Listener == <<"listener", "">>
Sender == <<"sender", "">>
Caller == <<"caller", "">>
Closer == <<"closer", "">>
WSGoroutines == ({"ping", "recv"} \X WSConns) \cup {Listener, Sender, Caller, Closer}

\* NewWebSocketManager: no client, an unbuffered broadcast channel, a live
\* context; nothing started and nothing called yet
WSIdle ==
    /\ wsPc = [g \in WSGoroutines |->
                  IF g \in {Sender, Caller, Closer} THEN "idle" ELSE "off"]
    /\ wsConn = [g \in WSGoroutines |-> ""]
    /\ wsPending = {}
    /\ wsClients = {}
    /\ wsMu = Nobody
    /\ wsOpen = [c \in WSConns |-> FALSE]
    /\ wsCancelled = FALSE
    /\ wsLeft = MaxCalls

Init == ClientInit /\ CMIdle /\ UtilIdle /\ WSIdle

\* ------------------------------------------------------------------- main
\* main reads the address; an empty one ends the process with status 1
Scanln ==
    /\ UNCHANGED notClient
    /\ UNCHANGED answered
    /\ pc = "start"
    /\ \E addr \in Addresses :
          IF addr = ""
          THEN pc' = "exited" /\ exitCode' = 1
          ELSE pc' = "connect" /\ UNCHANGED exitCode
    /\ UNCHANGED <<connVars, timeVars, cacheVal, issued, iterVars, runErr, streakVars>>

\* the connect loop giving up on the first failed Connect
AfterConnectGiveUp(ok) ==
    IF ok THEN [pc |-> "newClient", sleep |-> 0] ELSE [pc |-> "exited", sleep |-> 0]

\* main after Connect: on success the loop ends, on failure main logs,
\* sleeps dialBackoff and tries again
AfterConnect(ok) ==
    IF ok THEN [pc |-> "newClient", sleep |-> 0] ELSE [pc |-> "connect", sleep |-> dialBackoff]

\* one turn of the connect loop: Connect, and on failure a 5 s Sleep
Connect ==
    /\ UNCHANGED notClient
    /\ UNCHANGED answered
    /\ pc = "connect"
    /\ \E ok \in BOOLEAN :
          /\ ok \/ dialFails < MaxDialFails
          /\ connected' = ok
          /\ dialFails' = IF ok THEN dialFails ELSE dialFails + 1
          /\ pc' = AfterConnect(ok).pc
          /\ slept' = slept + AfterConnect(ok).sleep
    /\ UNCHANGED <<connClosed, exitCode, timeVars, cacheVal, issued, iterVars, runErr,
                   streakVars>>

\* NewOllamaClient fails: os.Exit(1), which runs no deferred call. Else the
\* Server is built and Run starts its ticker.
StartRun ==
    /\ UNCHANGED notClient
    /\ UNCHANGED answered
    /\ pc = "newClient"
    /\ \E ok \in BOOLEAN :
          IF ok
          THEN /\ pc' = "arm"
               /\ toTick' = heartbeatInterval
               /\ tickReady' = FALSE
               /\ UNCHANGED exitCode
          ELSE /\ pc' = "exited"
               /\ exitCode' = 1
               /\ UNCHANGED <<toTick, tickReady>>
    /\ UNCHANGED <<connVars, deadline, cacheLeft, cacheVal, issued, iterVars, runErr,
                   streakVars>>

\* Run returned an error: main logs it and calls os.Exit(1); the deferred
\* wsClient.Close() does not run.
ExitOnRunError ==
    /\ UNCHANGED notClient
    /\ UNCHANGED answered
    /\ pc = "returned"
    /\ pc' = "exited"
    /\ exitCode' = 1
    /\ UNCHANGED <<connVars, timeVars, cacheVal, issued, iterVars, runErr, streakVars>>

\* ------------------------------------------------------------- Server.Run
\* a response envelope is among the bytes written in this iteration
ResponseWritten == \E i \in 1..Len(out) : out[i].type = "client_to_server"

\* top of the loop: SetReadDeadline(now + readTimeout)
SetReadDeadline ==
    /\ UNCHANGED notClient
    /\ pc = "arm"
    /\ \E err \in {Nil, ErrDeadline} :
          /\ pc' = AfterSetReadDeadline(err)
          /\ deadline' = IF err = Nil THEN readTimeout ELSE deadline
          /\ logged' = IF err = Nil THEN <<>> ELSE <<ErrDeadline>>
          /\ runErr' = IF AfterSetReadDeadline(err) = "returned" THEN err ELSE runErr
    /\ msg' = NoMsg
    /\ out' = <<>>
    /\ calls' = <<>>
    /\ backend' = <<>>
    /\ answered' = (answered \/ ResponseWritten)
    /\ steps' = <<"arm">>
    /\ UNCHANGED <<connVars, exitCode, tickReady, toTick, cacheLeft, cacheVal, issued,
                   streakVars>>

\* select, case <-heartbeatTicker.C: sendHeartbeat
SendHeartbeat ==
    /\ UNCHANGED notClient
    /\ UNCHANGED <<answered, backend>>
    /\ pc = "select"
    /\ SelectCase = "heartbeat"
    /\ tickReady' = FALSE
    /\ \E id \in GenIds, writeOk \in BOOLEAN :
          LET err == IF writeOk THEN Nil ELSE ErrWrite IN
          /\ issued' = issued \cup {id}
          /\ out' = IF writeOk THEN Append(out, MarshalHeartbeat(id)) ELSE out
          /\ logged' = IF writeOk THEN logged ELSE Append(logged, err)
          /\ pc' = AfterHeartbeat(err)
          /\ runErr' = IF AfterHeartbeat(err) = "returned" THEN err ELSE runErr
    /\ steps' = Append(steps, "heartbeat")
    /\ beats' = IF timeouts > 0 THEN UpTo(beats) ELSE beats
    /\ UNCHANGED <<connVars, exitCode, toTick, deadline, cacheLeft, cacheVal, msg, calls,
                   timeouts>>

\* time d passes while the loop is blocked
Elapse(d) ==
    /\ tickReady' = (tickReady \/ TickAfter(d))
    /\ toTick' = ToTickAfter(d)
    /\ deadline' = DeadlineAfter(d)

\* the longest a read can block: until the deadline, or forever without one
ReadWait == IF deadline < 0 THEN readTimeout ELSE deadline

\* select, default: readAndParseMessage fails with a timeout at the deadline
ReadTimeout ==
    /\ UNCHANGED notClient
    /\ UNCHANGED <<answered, backend>>
    /\ pc = "select"
    /\ SelectCase = "default"
    /\ deadline >= 0
    /\ Elapse(deadline)
    /\ cacheLeft' = LeftAfter(cacheLeft, deadline)
    /\ logged' = Append(logged, ErrTimeout)
    /\ pc' = AfterReadError(ErrTimeout)
    /\ runErr' = IF AfterReadError(ErrTimeout) = "returned" THEN ErrTimeout ELSE runErr
    /\ steps' = Append(steps, "read")
    /\ timeouts' = UpTo(timeouts)
    /\ UNCHANGED <<connVars, exitCode, cacheVal, issued, msg, out, calls, beats>>

\* select, default: readAndParseMessage fails with another error
ReadError ==
    /\ UNCHANGED notClient
    /\ UNCHANGED <<answered, backend>>
    /\ pc = "select"
    /\ SelectCase = "default"
    /\ \E d \in 0..ReadWait :
          /\ Elapse(d)
          /\ cacheLeft' = LeftAfter(cacheLeft, d)
    /\ logged' = Append(logged, ErrRead)
    /\ pc' = AfterReadError(ErrRead)
    /\ runErr' = IF AfterReadError(ErrRead) = "returned" THEN ErrRead ELSE runErr
    /\ steps' = Append(steps, "read")
    /\ timeouts' = 0
    /\ beats' = 0
    /\ UNCHANGED <<connVars, exitCode, cacheVal, issued, msg, out, calls>>

\* select, default: readAndParseMessage returns a Message
ReadMessage ==
    /\ UNCHANGED notClient
    /\ UNCHANGED <<answered, backend>>
    /\ pc = "select"
    /\ SelectCase = "default"
    /\ \E d \in 0..ReadWait, f \in Frames :
          /\ Elapse(d)
          /\ cacheLeft' = LeftAfter(cacheLeft, d)
          /\ msg' = ParseMessage(f)
    /\ pc' = "dispatch"
    /\ steps' = Append(steps, "read")
    /\ timeouts' = 0
    /\ beats' = 0
    /\ UNCHANGED <<connVars, exitCode, cacheVal, issued, out, logged, calls, runErr>>

\* the effect of the handler's backend call on time and on the cache
BackendEffect(handler, b, d) ==
    /\ Elapse(d)
    /\ IF handler = "ListModelHandler" /\ cacheLeft < 0 /\ b.err = Nil
       THEN cacheLeft' = cacheExpiry /\ cacheVal' = b.val
       ELSE cacheLeft' = LeftAfter(cacheLeft, d) /\ UNCHANGED cacheVal

\* msg.Response == nil: handleServerRequest, its error logged
ServeRequest ==
    /\ UNCHANGED notClient
    /\ UNCHANGED answered
    /\ pc = "dispatch"
    /\ msg.Response = NilPtr
    /\ LET handler == HandlerFor(msg) IN
       \E b \in BackendResults(handler), writeOk \in BOOLEAN,
          d \in 0..(IF BackendCalled(handler) THEN MaxBackendTime ELSE 0) :
          LET r == handleServerRequest(msg, b, writeOk) IN
          /\ BackendEffect(handler, b, d)
          /\ calls' = calls \o r.calls
          /\ backend' = backend \o BackendCalls(handler, msg.Request, b)
          /\ out' = out \o r.out
          /\ logged' = IF r.err # Nil THEN Append(logged, r.err) ELSE logged
          /\ pc' = AfterDispatch(r.err)
          /\ runErr' = IF AfterDispatch(r.err) = "returned" THEN r.err ELSE runErr
    /\ UNCHANGED <<connVars, exitCode, issued, msg, steps, streakVars>>

\* msg.Response != nil: processMessage. A panic unwinds the main goroutine,
\* running the deferred Stop and Close, and ends the process with status 2.
ProcessResponse ==
    /\ UNCHANGED notClient
    /\ UNCHANGED answered
    /\ pc = "dispatch"
    /\ msg.Response # NilPtr
    /\ LET handler == HandlerFor(msg) IN
       \E b \in BackendResults(handler), writeOk \in BOOLEAN,
          d \in 0..(IF BackendCalled(handler) THEN MaxBackendTime ELSE 0) :
          LET r == processMessage(msg, b, writeOk) IN
          /\ BackendEffect(handler, b, d)
          /\ calls' = calls \o r.calls
          /\ backend' = backend \o BackendCalls(handler, msg.Request, b)
          /\ out' = out \o r.out
          /\ IF r.panic
             THEN /\ pc' = "panicked"
                  /\ connClosed' = TRUE
                  /\ exitCode' = 2
                  /\ UNCHANGED <<logged, runErr>>
             ELSE /\ logged' = IF r.err # Nil THEN Append(logged, r.err) ELSE logged
                  /\ pc' = AfterDispatch(r.err)
                  /\ runErr' = IF AfterDispatch(r.err) = "returned" THEN r.err ELSE runErr
                  /\ UNCHANGED <<connClosed, exitCode>>
    /\ UNCHANGED <<connected, dialFails, slept, issued, msg, steps, streakVars>>

Next ==
    \/ Scanln
    \/ Connect
    \/ StartRun
    \/ ExitOnRunError
    \/ SetReadDeadline
    \/ SendHeartbeat
    \/ ReadTimeout
    \/ ReadError
    \/ ReadMessage
    \/ ServeRequest
    \/ ProcessResponse

Spec == Init /\ [][Next]_vars

\* ------------------------------------------- the ConnectionManager server

ConnOf(g) == g[2]
Handler(c) == <<"handler", c>>
Heartbeat(c) == <<"heartbeat", c>>

\* one operation on the registry or the connection; fail is the set of
\* connections a broadcast cannot write to
Op(kind, group) == [kind |-> kind, group |-> group, fail |-> {}]

\* the methods that take cm.mu for their whole body
LockedKinds == {"AddConnection", "RemoveConnection", "GetGroupSize",
                "GetTotalConnections", "BroadcastToGroup"}

\* how an operation touches the maps while it is in progress
Mode(op) ==
    CASE op.kind \in {"AddConnection", "RemoveConnection", "delete"} -> "write"
      [] op.kind = "BroadcastToGroup" -> IF op.fail = {} THEN "read" ELSE "write"
      [] OTHER -> "read"

\* AddConnection: the connection joins the registry and its group
AddConnection(conn, group) ==
    [connections |-> [connections EXCEPT ![conn] = group],
     groups |-> [groups EXCEPT ![group] = @ \cup {conn}]]

\* RemoveConnection: a registered connection leaves the registry and the
\* group it is recorded in; an unregistered one changes nothing
RemoveConnection(conn) ==
    IF connections[conn] # Nil
    THEN [connections |-> [connections EXCEPT ![conn] = Nil],
          groups |-> [groups EXCEPT ![connections[conn]] = @ \ {conn}]]
    ELSE [connections |-> connections, groups |-> groups]

\* sendMessage on a failed write: the connection is closed and deleted from
\* cm.connections, and stays in its group
DeleteOnWriteError(failed) ==
    [connections |-> [c \in Conns |-> IF c \in failed THEN Nil ELSE connections[c]],
     groups |-> groups]

\* the maps after an operation of connection conn has finished
Apply(op, conn) ==
    CASE op.kind = "AddConnection" -> AddConnection(conn, op.group)
      [] op.kind = "RemoveConnection" -> RemoveConnection(conn)
      [] op.kind = "BroadcastToGroup" -> DeleteOnWriteError(op.fail)
      [] op.kind = "delete" -> DeleteOnWriteError({conn})
      [] OTHER -> [connections |-> connections, groups |-> groups]

\* the arguments and the call of cm.sendMessage(conn, &WebSocketMessage{...})
\* in the heartbeat goroutine and in the default branch: three lookups of
\* cm.connections[conn], the two counting methods, then the write
SendOwnInfo ==
    << Op("lookup", Nil), Op("lookup", Nil), Op("lookup", Nil),
       Op("GetGroupSize", Nil), Op("GetTotalConnections", Nil),
       Op("sendMessage", Nil) >>

\* the operations of one received message, in the order the handler makes them
OnMessage(type, group) ==
    CASE type = "join-group" ->
            << Op("RemoveConnection", Nil), Op("AddConnection", group),
               Op("GetGroupSize", group), Op("GetTotalConnections", Nil),
               Op("BroadcastToGroup", group) >>
      [] type = "leave-group" ->
            << Op("GetGroupSize", group), Op("GetTotalConnections", Nil),
               Op("BroadcastToGroup", group), Op("RemoveConnection", Nil) >>
      [] type = "invalid" -> <<>>
      [] OTHER -> SendOwnInfo

\* the deferred calls of the handler: RemoveConnection, then conn.Close
Deferred == << Op("RemoveConnection", Nil), Op("Close", Nil) >>

MessageTypes == {"join-group", "leave-group", "chat", "invalid"}

InitCM == ClientInit /\ CMIdle /\ UtilIdle /\ WSIdle

\* the variables of the other programs, which the server never touches
notCM == <<clientVars, utilVars, wsVars>>

\* upgrader.Upgrade and the query parameters
Upgrade ==
    /\ UNCHANGED notCM
    /\ ~cmPanic
    /\ \E c \in Conns, outcome \in {"upgrade error", "missing"} \cup GroupNames :
          /\ cmState[Handler(c)] = "new"
          /\ cmState' = [cmState EXCEPT ![Handler(c)] =
                            IF outcome = "upgrade error" THEN "done" ELSE "running"]
          /\ connOpen' = [connOpen EXCEPT ![c] = outcome # "upgrade error"]
          /\ cmTodo' = [cmTodo EXCEPT ![Handler(c)] =
                            CASE outcome = "upgrade error" -> <<>>
                              [] outcome = "missing" -> << Op("Close", Nil) >>
                              [] OTHER -> << Op("AddConnection", outcome) >>]
    /\ UNCHANGED <<cmBusy, cmLeft, mu, connections, groups, cmPanic>>

\* conn.ReadMessage in the handler's loop: an error ends the loop, a message
\* is unmarshalled and dispatched on its type
ReadMessageCM ==
    /\ UNCHANGED notCM
    /\ ~cmPanic
    /\ \E c \in Conns :
          /\ cmState[Handler(c)] = "running"
          /\ cmState[Heartbeat(c)] # "new"
          /\ cmTodo[Handler(c)] = <<>>
          /\ \/ /\ cmTodo' = [cmTodo EXCEPT ![Handler(c)] = Deferred]
                /\ UNCHANGED cmLeft
             \/ /\ connOpen[c]
                /\ cmLeft > 0
                /\ \E type \in MessageTypes, group \in GroupNames :
                      cmTodo' = [cmTodo EXCEPT ![Handler(c)] = OnMessage(type, group)]
                /\ cmLeft' = cmLeft - 1
    /\ UNCHANGED <<cmState, cmBusy, mu, connections, groups, connOpen, cmPanic>>

\* case <-ticker.C in the heartbeat goroutine
Tick ==
    /\ UNCHANGED notCM
    /\ ~cmPanic
    /\ \E c \in Conns :
          /\ cmState[Heartbeat(c)] = "running"
          /\ cmTodo[Heartbeat(c)] = <<>>
          /\ cmLeft > 0
          /\ cmTodo' = [cmTodo EXCEPT ![Heartbeat(c)] = SendOwnInfo]
          /\ cmLeft' = cmLeft - 1
    /\ UNCHANGED <<cmState, cmBusy, mu, connections, groups, connOpen, cmPanic>>

\* cm.mu.Lock() at the head of a locking method; a broadcast then writes to
\* the members of the group, and a closed connection cannot be written to
Lock ==
    /\ UNCHANGED notCM
    /\ ~cmPanic
    /\ \E g \in Goroutines :
          /\ cmTodo[g] # <<>>
          /\ Head(cmTodo[g]).kind \in LockedKinds
          /\ cmBusy[g] = "none"
          /\ mu = Nobody
          /\ mu' = g
          /\ \E failed \in SUBSET Conns :
                /\ IF Head(cmTodo[g]).kind = "BroadcastToGroup"
                   THEN /\ failed \subseteq groups[Head(cmTodo[g]).group]
                        /\ \A c \in groups[Head(cmTodo[g]).group] : ~connOpen[c] => c \in failed
                   ELSE failed = {}
                /\ cmTodo' = [cmTodo EXCEPT ![g] = <<[Head(@) EXCEPT !.fail = failed]>> \o Tail(@)]
                /\ cmBusy' = [cmBusy EXCEPT ![g] = Mode([Head(cmTodo[g]) EXCEPT !.fail = failed])]
    /\ UNCHANGED <<cmState, cmLeft, connections, groups, connOpen, cmPanic>>

\* the body of a locking method and its deferred cm.mu.Unlock(); the first
\* AddConnection of a handler is followed by the go statement of its
\* heartbeat goroutine
Unlock ==
    /\ UNCHANGED notCM
    /\ ~cmPanic
    /\ \E g \in Goroutines :
          /\ cmBusy[g] # "none"
          /\ mu = g
          /\ mu' = Nobody
          /\ connections' = Apply(Head(cmTodo[g]), ConnOf(g)).connections
          /\ groups' = Apply(Head(cmTodo[g]), ConnOf(g)).groups
          /\ connOpen' = [c \in Conns |-> connOpen[c] /\ c \notin Head(cmTodo[g]).fail]
          /\ cmTodo' = [cmTodo EXCEPT ![g] = Tail(@)]
          /\ cmBusy' = [cmBusy EXCEPT ![g] = "none"]
          /\ cmState' = IF cmState[Heartbeat(ConnOf(g))] = "new"
                        THEN [cmState EXCEPT ![Heartbeat(ConnOf(g))] = "running"]
                        ELSE cmState
    /\ UNCHANGED <<cmLeft, cmPanic>>

\* the start of an access to cm.connections made outside the locking
\* methods: the lookups cm.connections[conn] of the heartbeat goroutine and
\* of the default branch, and the delete of sendMessage called from them
BeginAccess ==
    /\ UNCHANGED notCM
    /\ ~cmPanic
    /\ \E g \in Goroutines :
          /\ cmTodo[g] # <<>>
          /\ Head(cmTodo[g]).kind \in {"lookup", "delete"}
          /\ cmBusy[g] = "none"
          /\ cmBusy' = [cmBusy EXCEPT ![g] = Mode(Head(cmTodo[g]))]
    /\ UNCHANGED <<cmState, cmTodo, cmLeft, mu, connections, groups, connOpen, cmPanic>>

\* the end of that access. cm.connections[conn] of an unregistered
\* connection is a nil *ConnectionInfo, and reading its field panics: in the
\* handler net/http recovers after the deferred calls, in the heartbeat
\* goroutine the process dies
EndAccess ==
    /\ UNCHANGED notCM
    /\ ~cmPanic
    /\ \E g \in Goroutines :
          /\ cmBusy[g] # "none"
          /\ mu # g
          /\ cmBusy' = [cmBusy EXCEPT ![g] = "none"]
          /\ connections' = Apply(Head(cmTodo[g]), ConnOf(g)).connections
          /\ IF Head(cmTodo[g]).kind = "lookup" /\ connections[ConnOf(g)] = Nil
             THEN /\ cmPanic' = (g[1] = "heartbeat")
                  /\ cmTodo' = [cmTodo EXCEPT ![g] = IF g[1] = "handler" THEN Deferred ELSE <<>>]
             ELSE /\ cmPanic' = cmPanic
                  /\ cmTodo' = [cmTodo EXCEPT ![g] = Tail(@)]
    /\ UNCHANGED <<cmState, cmLeft, mu, groups, connOpen>>

\* conn.WriteMessage in sendMessage called without the lock: on an error the
\* connection is closed and the delete follows
WriteMessage ==
    /\ UNCHANGED notCM
    /\ ~cmPanic
    /\ \E g \in Goroutines, ok \in BOOLEAN :
          /\ cmTodo[g] # <<>>
          /\ Head(cmTodo[g]).kind = "sendMessage"
          /\ ok => connOpen[ConnOf(g)]
          /\ connOpen' = [connOpen EXCEPT ![ConnOf(g)] = ok]
          /\ cmTodo' = [cmTodo EXCEPT ![g] =
                            IF ok THEN Tail(@) ELSE << Op("delete", Nil) >> \o Tail(@)]
    /\ UNCHANGED <<cmState, cmBusy, cmLeft, mu, connections, groups, cmPanic>>

\* the deferred conn.Close() as the handler returns
Close ==
    /\ UNCHANGED notCM
    /\ ~cmPanic
    /\ \E c \in Conns :
          /\ cmTodo[Handler(c)] # <<>>
          /\ Head(cmTodo[Handler(c)]).kind = "Close"
          /\ connOpen' = [connOpen EXCEPT ![c] = FALSE]
          /\ cmTodo' = [cmTodo EXCEPT ![Handler(c)] = <<>>]
          /\ cmState' = [cmState EXCEPT ![Handler(c)] = "done"]
    /\ UNCHANGED <<cmBusy, cmLeft, mu, connections, groups, cmPanic>>

NextCM ==
    \/ Upgrade
    \/ ReadMessageCM
    \/ Tick
    \/ Lock
    \/ Unlock
    \/ BeginAccess
    \/ EndAccess
    \/ WriteMessage
    \/ Close

SpecCM == InitCM /\ [][NextCM]_vars

\* ------------------------------------------------------------ package util
\* the byte sequence of n bytes b
Fill(n, b) == [i \in 1..n |-> b]

RECURSIVE SumBytes(_)
SumBytes(s) == IF s = <<>> THEN 0 ELSE Head(s) + SumBytes(Tail(s))

\* "Hello, secure world!", the plaintext of the tests
Hello == <<72, 101, 108, 108, 111, 44, 32, 115, 101, 99, 117, 114, 101, 32,
           119, 111, 114, 108, 100, 33>>
\* "short" and "dummy-ciphertext", the ciphertexts of the tests
Short == <<115, 104, 111, 114, 116>>
DummyCiphertext == <<100, 117, 109, 109, 121, 45, 99, 105, 112, 104, 101, 114,
                     116, 101, 120, 116>>

\* the plaintexts: every prefix of the test string up to MaxPlainLen bytes
\* (the empty string among them) and the whole of it
Plaintexts == {SubSeq(Hello, 1, n) : n \in 0..MaxPlainLen} \cup {Hello}

ErrRand == "random source error"
ErrKeySize == "invalid key size"
ErrCorruptInput == "illegal base64 data"
ErrTooShort == "ciphertext too short"
ErrAuth == "message authentication failed"

\* what a read of n bytes from crypto/rand gives: the bytes, or an error
RandFills == {7, 9}
RandReads(n) ==
    {[ok |-> TRUE, bytes |-> Fill(n, b)] : b \in RandFills}
        \cup {[ok |-> FALSE, bytes |-> <<>>]}

\* generateKey: keySize random bytes, or the error of the random source
generateKey(rnd) ==
    IF rnd.ok THEN [key |-> rnd.bytes, err |-> Nil] ELSE [key |-> <<>>, err |-> ErrRand]

\* NewDecryptKey: the generated key; on an error the named result is
\* returned as it is, nil
NewDecryptKey(rnd) ==
    IF generateKey(rnd).err # Nil THEN <<>> ELSE generateKey(rnd).key

NewDecryptKeys == {NewDecryptKey(rnd) : rnd \in RandReads(keySize)}

\* keys a caller makes itself: empty, 15 bytes, and the two other AES sizes
OtherKeys == {<<>>, Fill(15, 0), Fill(16, 1), Fill(24, 2)}
Keys == NewDecryptKeys \cup OtherKeys

\* aes.NewCipher accepting every key that is not empty
NewCipherAnySize(k) == IF Len(k) > 0 THEN Nil ELSE ErrKeySize

\* aes.NewCipher: a KeySizeError unless the key has 16, 24 or 32 bytes
NewCipher(k) == IF Len(k) \in {16, 24, 32} THEN Nil ELSE ErrKeySize

\* AES-GCM is the standard library's. Seal and Open stand for it by a cipher
\* that keeps its contract on the keys and nonces used here: Seal gives the
\* enciphered bytes followed by a tagSize-byte tag; Open gives the plaintext
\* back under the same key and nonce, and fails on any other key or on input
\* shorter than a tag
KeyStream(k, n, i) == (k[((i - 1) % Len(k)) + 1] + n[((i - 1) % Len(n)) + 1] + i) % 256

Tag(k, n, ct) ==
    [j \in 1..tagSize |->
        (k[((j - 1) % Len(k)) + 1] * j + Len(k) + n[((j - 1) % Len(n)) + 1]
            + SumBytes(ct)) % 256]

Seal(k, n, pt) ==
    LET ct == [i \in 1..Len(pt) |-> (pt[i] + KeyStream(k, n, i)) % 256]
    IN  ct \o Tag(k, n, ct)

\* aesgcm.Open that returns the deciphered bytes without checking the tag
OpenUnauthenticated(k, n, sealed) ==
    IF Len(sealed) < tagSize
    THEN [bytes |-> <<>>, err |-> ErrAuth]
    ELSE [bytes |-> [i \in 1..(Len(sealed) - tagSize) |->
                        (sealed[i] + 256 - KeyStream(k, n, i)) % 256],
          err |-> Nil]

Open(k, n, sealed) ==
    IF Len(sealed) < tagSize
    THEN [bytes |-> <<>>, err |-> ErrAuth]
    ELSE LET ct == SubSeq(sealed, 1, Len(sealed) - tagSize)
             tag == SubSeq(sealed, Len(sealed) - tagSize + 1, Len(sealed))
         IN  IF tag # Tag(k, n, ct)
             THEN [bytes |-> <<>>, err |-> ErrAuth]
             ELSE [bytes |-> [i \in 1..Len(ct) |-> (ct[i] + 256 - KeyStream(k, n, i)) % 256],
                   err |-> Nil]

\* base64.URLEncoding: A-Z a-z 0-9 - _ with = as padding
Alphabet ==
    [i \in 1..26 |-> 64 + i] \o [i \in 1..26 |-> 96 + i] \o [i \in 1..10 |-> 47 + i]
        \o <<45, 95>>
PadChar == 61

\* EncodeToString: three bytes give four characters of six bits each; a last
\* group of one or two bytes is padded with =
EncodeToString(b) ==
    LET at(i) == IF i <= Len(b) THEN b[i] ELSE 0
        char(q, r) ==
            LET b0 == at(3 * q + 1)
                b1 == at(3 * q + 2)
                b2 == at(3 * q + 3)
                have == Len(b) - 3 * q
            IN  CASE r = 0 -> Alphabet[(b0 \div 4) + 1]
                  [] r = 1 -> Alphabet[((b0 % 4) * 16 + (b1 \div 16)) + 1]
                  [] r = 2 -> IF have < 2 THEN PadChar
                              ELSE Alphabet[((b1 % 16) * 4 + (b2 \div 64)) + 1]
                  [] OTHER -> IF have < 3 THEN PadChar ELSE Alphabet[(b2 % 64) + 1]
    IN  [i \in 1..(4 * ((Len(b) + 2) \div 3)) |-> char((i - 1) \div 4, (i - 1) % 4)]

\* the six bits of a character of the URL alphabet, -1 for any other
Sextet(c) ==
    CASE c >= 65 /\ c <= 90 -> c - 65
      [] c >= 97 /\ c <= 122 -> c - 71
      [] c >= 48 /\ c <= 57 -> c + 4
      [] c = 45 -> 62
      [] c = 95 -> 63
      [] OTHER -> -1

\* DecodeString: \r and \n are skipped; the rest must be whole groups of four
\* characters of the alphabet, only the last of which may end in = or ==
DecodeString(str) ==
    LET t == SelectSeq(str, LAMBDA c : c # 10 /\ c # 13)
        n == Len(t)
        pad == IF n > 0 /\ n % 4 = 0
               THEN IF t[n] # PadChar THEN 0 ELSE IF t[n - 1] # PadChar THEN 1 ELSE 2
               ELSE 0
        wellFormed ==
            /\ n % 4 = 0
            /\ \A i \in 1..(n - pad) : Sextet(t[i]) >= 0
        v(i) == IF i <= n - pad THEN Sextet(t[i]) ELSE 0
        byte(q, r) ==
            CASE r = 0 -> v(4 * q + 1) * 4 + (v(4 * q + 2) \div 16)
              [] r = 1 -> (v(4 * q + 2) % 16) * 16 + (v(4 * q + 3) \div 4)
              [] OTHER -> (v(4 * q + 3) % 4) * 64 + v(4 * q + 4)
    IN  IF ~wellFormed
        THEN [bytes |-> <<>>, err |-> ErrCorruptInput]
        ELSE [bytes |-> [j \in 1..(3 * (n \div 4) - pad) |-> byte((j - 1) \div 3, (j - 1) % 3)],
              err |-> Nil]

\* encrypt that puts the nonce after the sealed bytes
encryptNonceLast(k, pt, rnd) ==
    IF NewCipher(k) # Nil THEN [val |-> <<>>, err |-> NewCipher(k)]
    ELSE IF ~rnd.ok THEN [val |-> <<>>, err |-> ErrRand]
    ELSE [val |-> EncodeToString(Seal(k, rnd.bytes, pt) \o rnd.bytes), err |-> Nil]

\* encrypt: the cipher of the key, a fresh nonce, then base64 of the nonce
\* followed by the sealed plaintext; "" with every error. cipher.NewGCM does
\* not fail on an AES block
encrypt(k, pt, rnd) ==
    IF NewCipher(k) # Nil THEN [val |-> <<>>, err |-> NewCipher(k)]
    ELSE IF ~rnd.ok THEN [val |-> <<>>, err |-> ErrRand]
    ELSE [val |-> EncodeToString(rnd.bytes \o Seal(k, rnd.bytes, pt)), err |-> Nil]

\* decrypt: base64 decoding, the length check, the split at nonceSize, the
\* cipher of the key and Open; "" with every error
decrypt(k, str) ==
    LET decoded == DecodeString(str)
    IN  IF decoded.err # Nil THEN [val |-> <<>>, err |-> decoded.err]
        ELSE IF Len(decoded.bytes) < nonceSize THEN [val |-> <<>>, err |-> ErrTooShort]
        ELSE IF NewCipher(k) # Nil THEN [val |-> <<>>, err |-> NewCipher(k)]
        ELSE LET opened == Open(k, SubSeq(decoded.bytes, 1, nonceSize),
                                SubSeq(decoded.bytes, nonceSize + 1, Len(decoded.bytes)))
             IN  IF opened.err # Nil THEN [val |-> <<>>, err |-> opened.err]
                 ELSE [val |-> opened.bytes, err |-> Nil]

Encrypt(k, data, rnd) == encrypt(k, data, rnd)
Decrypt(k, data) == decrypt(k, data)

\* strings a caller hands to Decrypt that Encrypt did not make: the test
\* strings and the encodings of MaxRawLen and fewer bytes
GivenCiphertexts ==
    {<<>>, Short, DummyCiphertext} \cup {EncodeToString(Fill(n, 5)) : n \in 0..MaxRawLen}

\* the variables of the other programs, which package util never touches
notUtil == <<clientVars, cmVars, wsVars>>

\* a caller with its keys and its plaintext
InitUtil ==
    /\ ClientInit
    /\ CMIdle
    /\ key \in Keys
    /\ key2 \in Keys
    /\ plaintext \in Plaintexts
    /\ CallsIdle
    /\ WSIdle

\* encrypted, err := Encrypt(key, plaintext)
EncryptCall ==
    /\ encrypted = NotCalled
    /\ decrypted = NotCalled
    /\ \E rnd \in RandReads(nonceSize) :
          /\ nonce' = IF NewCipher(key) = Nil THEN rnd.bytes ELSE <<>>
          /\ encrypted' = Encrypt(key, plaintext, rnd)
    /\ UNCHANGED <<key, key2, plaintext, ciphertext, decrypted, notUtil>>

\* decrypted, err := Decrypt(key2, encrypted)
DecryptCall ==
    /\ encrypted # NotCalled
    /\ decrypted = NotCalled
    /\ ciphertext' = encrypted.val
    /\ decrypted' = Decrypt(key2, encrypted.val)
    /\ UNCHANGED <<key, key2, plaintext, nonce, encrypted, notUtil>>

\* msg, err := Decrypt(key2, given), of a string Encrypt did not make
DecryptGiven ==
    /\ encrypted = NotCalled
    /\ decrypted = NotCalled
    /\ \E given \in GivenCiphertexts :
          /\ ciphertext' = given
          /\ decrypted' = Decrypt(key2, given)
    /\ UNCHANGED <<key, key2, plaintext, nonce, encrypted, notUtil>>

NextUtil ==
    \/ EncryptCall
    \/ DecryptCall
    \/ DecryptGiven

SpecUtil == InitUtil /\ [][NextUtil]_vars

\* ------------------------------------------ package wsutils (WebSocketManager)
PingOf(c) == <<"ping", c>>
RecvOf(c) == <<"recv", c>>

\* message types receiveMessages tells apart, and a read that fails
Inbound == {"error", "CloseMessage", "PingMessage", "other"}

\* the variables of the other programs, which a WebSocketManager never touches
notWS == <<clientVars, cmVars, utilVars>>

InitWS == ClientInit /\ CMIdle /\ UtilIdle /\ WSIdle

\* Upgrade: the connection is registered under m.mu, then the ping task and
\* the receive loop are started
UpgradeWS ==
    /\ UNCHANGED notWS
    /\ \E c \in WSConns :
          /\ wsPc[RecvOf(c)] = "off"
          /\ wsMu = Nobody
          /\ wsClients' = wsClients \cup {c}
          /\ wsOpen' = [wsOpen EXCEPT ![c] = TRUE]
          /\ wsPc' = [wsPc EXCEPT ![PingOf(c)] = "wait", ![RecvOf(c)] = "read"]
    /\ UNCHANGED <<wsConn, wsPending, wsMu, wsCancelled, wsLeft>>

\* startPingPong, case <-ticker.C: conn.WriteMessage(PingMessage) begins
PingTick ==
    /\ UNCHANGED notWS
    /\ wsLeft > 0
    /\ \E c \in WSConns :
          /\ wsPc[PingOf(c)] = "wait"
          /\ wsPc' = [wsPc EXCEPT ![PingOf(c)] = "writing"]
          /\ wsConn' = [wsConn EXCEPT ![PingOf(c)] = c]
    /\ wsLeft' = wsLeft - 1
    /\ UNCHANGED <<wsPending, wsClients, wsMu, wsOpen, wsCancelled>>

\* that WriteMessage returns: on an error the ping task returns
PingWritten ==
    /\ UNCHANGED notWS
    /\ \E c \in WSConns, ok \in BOOLEAN :
          /\ wsPc[PingOf(c)] = "writing"
          /\ ok => wsOpen[c]
          /\ wsPc' = [wsPc EXCEPT ![PingOf(c)] = IF ok THEN "wait" ELSE "done"]
          /\ wsConn' = [wsConn EXCEPT ![PingOf(c)] = ""]
    /\ UNCHANGED <<wsPending, wsClients, wsMu, wsOpen, wsCancelled, wsLeft>>

\* startPingPong, case <-m.ctx.Done()
PingStop ==
    /\ UNCHANGED notWS
    /\ wsCancelled
    /\ \E c \in WSConns :
          /\ wsPc[PingOf(c)] = "wait"
          /\ wsPc' = [wsPc EXCEPT ![PingOf(c)] = "done"]
    /\ UNCHANGED <<wsConn, wsPending, wsClients, wsMu, wsOpen, wsCancelled, wsLeft>>

\* receiveMessages: conn.ReadMessage and the switch on the message type. A
\* read error and a close message return; a ping message is answered with
\* conn.WriteMessage(PongMessage); anything else is logged
RecvRead ==
    /\ UNCHANGED notWS
    /\ \E c \in WSConns, kind \in Inbound :
          /\ wsPc[RecvOf(c)] = "read"
          /\ ~wsOpen[c] => kind = "error"
          /\ kind # "error" => wsLeft > 0
          /\ wsLeft' = IF kind = "error" THEN wsLeft ELSE wsLeft - 1
          /\ wsPc' = [wsPc EXCEPT ![RecvOf(c)] =
                         CASE kind \in {"error", "CloseMessage"} -> "cleanup"
                           [] kind = "PingMessage" -> "writing"
                           [] OTHER -> "read"]
          /\ wsConn' = [wsConn EXCEPT ![RecvOf(c)] = IF kind = "PingMessage" THEN c ELSE ""]
    /\ UNCHANGED <<wsPending, wsClients, wsMu, wsOpen, wsCancelled>>

\* the pong WriteMessage returns: on an error receiveMessages returns
PongWritten ==
    /\ UNCHANGED notWS
    /\ \E c \in WSConns, ok \in BOOLEAN :
          /\ wsPc[RecvOf(c)] = "writing"
          /\ ok => wsOpen[c]
          /\ wsPc' = [wsPc EXCEPT ![RecvOf(c)] = IF ok THEN "read" ELSE "cleanup"]
          /\ wsConn' = [wsConn EXCEPT ![RecvOf(c)] = ""]
    /\ UNCHANGED <<wsPending, wsClients, wsMu, wsOpen, wsCancelled, wsLeft>>

\* the deferred function of receiveMessages: the client is deleted under
\* m.mu and the connection closed
RecvCleanup ==
    /\ UNCHANGED notWS
    /\ wsMu = Nobody
    /\ \E c \in WSConns :
          /\ wsPc[RecvOf(c)] = "cleanup"
          /\ wsClients' = wsClients \ {c}
          /\ wsOpen' = [wsOpen EXCEPT ![c] = FALSE]
          /\ wsPc' = [wsPc EXCEPT ![RecvOf(c)] = "done"]
    /\ UNCHANGED <<wsConn, wsPending, wsMu, wsCancelled, wsLeft>>

\* SendMessage(conn, ...): conn.WriteMessage begins, without any lock
SendMessageCall ==
    /\ UNCHANGED notWS
    /\ wsLeft > 0
    /\ wsPc[Sender] = "idle"
    /\ \E c \in WSConns :
          /\ wsPc[RecvOf(c)] # "off"
          /\ wsConn' = [wsConn EXCEPT ![Sender] = c]
    /\ wsPc' = [wsPc EXCEPT ![Sender] = "writing"]
    /\ wsLeft' = wsLeft - 1
    /\ UNCHANGED <<wsPending, wsClients, wsMu, wsOpen, wsCancelled>>

\* SendMessage returns the result of WriteMessage
SendMessageReturn ==
    /\ UNCHANGED notWS
    /\ wsPc[Sender] = "writing"
    /\ wsPc' = [wsPc EXCEPT ![Sender] = "idle"]
    /\ wsConn' = [wsConn EXCEPT ![Sender] = ""]
    /\ UNCHANGED <<wsPending, wsClients, wsMu, wsOpen, wsCancelled, wsLeft>>

\* go m.ListenBroadcasts()
StartListen ==
    /\ UNCHANGED notWS
    /\ wsPc[Listener] = "off"
    /\ wsPc' = [wsPc EXCEPT ![Listener] = "select"]
    /\ UNCHANGED <<wsConn, wsPending, wsClients, wsMu, wsOpen, wsCancelled, wsLeft>>

\* Broadcast: the caller reaches m.broadcast <- msg, a send on an unbuffered
\* channel, which waits for a receiver
BroadcastCall ==
    /\ UNCHANGED notWS
    /\ wsLeft > 0
    /\ wsPc[Caller] \in {"idle", "returned"}
    /\ wsPc' = [wsPc EXCEPT ![Caller] = "sending"]
    /\ wsLeft' = wsLeft - 1
    /\ UNCHANGED <<wsConn, wsPending, wsClients, wsMu, wsOpen, wsCancelled>>

\* ListenBroadcasts, case msg := <-m.broadcast: the send and the receive
\* meet, and Broadcast returns
Receive ==
    /\ UNCHANGED notWS
    /\ wsPc[Listener] = "select"
    /\ wsPc[Caller] = "sending"
    /\ wsPc' = [wsPc EXCEPT ![Listener] = "lock", ![Caller] = "returned"]
    /\ UNCHANGED <<wsConn, wsPending, wsClients, wsMu, wsOpen, wsCancelled, wsLeft>>

\* ListenBroadcasts: m.mu.Lock() and the start of the range over m.clients
ListenerLock ==
    /\ UNCHANGED notWS
    /\ wsPc[Listener] = "lock"
    /\ wsMu = Nobody
    /\ wsMu' = Listener
    /\ wsPending' = wsClients
    /\ wsPc' = [wsPc EXCEPT ![Listener] = "range"]
    /\ UNCHANGED <<wsConn, wsClients, wsOpen, wsCancelled, wsLeft>>

\* the range loop: WriteMessage to the next client begins, or the loop is
\* over and m.mu is unlocked
ListenerNext ==
    /\ UNCHANGED notWS
    /\ wsPc[Listener] = "range"
    /\ IF wsPending = {}
       THEN /\ wsMu' = Nobody
            /\ wsPc' = [wsPc EXCEPT ![Listener] = "select"]
            /\ UNCHANGED <<wsConn, wsPending>>
       ELSE /\ \E c \in wsPending :
                  /\ wsConn' = [wsConn EXCEPT ![Listener] = c]
                  /\ wsPending' = wsPending \ {c}
            /\ wsPc' = [wsPc EXCEPT ![Listener] = "writing"]
            /\ UNCHANGED wsMu
    /\ UNCHANGED <<wsClients, wsOpen, wsCancelled, wsLeft>>

\* that WriteMessage returns: on an error the client is closed and deleted
ListenerWritten ==
    /\ UNCHANGED notWS
    /\ wsPc[Listener] = "writing"
    /\ \E ok \in BOOLEAN :
          /\ ok => wsOpen[wsConn[Listener]]
          /\ wsOpen' = [wsOpen EXCEPT ![wsConn[Listener]] = ok]
          /\ wsClients' = IF ok THEN wsClients ELSE wsClients \ {wsConn[Listener]}
    /\ wsConn' = [wsConn EXCEPT ![Listener] = ""]
    /\ wsPc' = [wsPc EXCEPT ![Listener] = "range"]
    /\ UNCHANGED <<wsPending, wsMu, wsCancelled, wsLeft>>

\* ListenBroadcasts, case <-m.ctx.Done(): it returns
ListenerExit ==
    /\ UNCHANGED notWS
    /\ wsPc[Listener] = "select"
    /\ wsCancelled
    /\ wsPc' = [wsPc EXCEPT ![Listener] = "exited"]
    /\ UNCHANGED <<wsConn, wsPending, wsClients, wsMu, wsOpen, wsCancelled, wsLeft>>

\* Close: m.cancel()
CloseCall ==
    /\ UNCHANGED notWS
    /\ wsPc[Closer] = "idle"
    /\ wsCancelled' = TRUE
    /\ wsPc' = [wsPc EXCEPT ![Closer] = "cancelled"]
    /\ UNCHANGED <<wsConn, wsPending, wsClients, wsMu, wsOpen, wsLeft>>

\* Close: under m.mu every client is closed and deleted
CloseSweep ==
    /\ UNCHANGED notWS
    /\ wsPc[Closer] = "cancelled"
    /\ wsMu = Nobody
    /\ wsOpen' = [c \in WSConns |-> wsOpen[c] /\ c \notin wsClients]
    /\ wsClients' = {}
    /\ wsPc' = [wsPc EXCEPT ![Closer] = "done"]
    /\ UNCHANGED <<wsConn, wsPending, wsMu, wsCancelled, wsLeft>>

NextWS ==
    \/ UpgradeWS
    \/ PingTick
    \/ PingWritten
    \/ PingStop
    \/ RecvRead
    \/ PongWritten
    \/ RecvCleanup
    \/ SendMessageCall
    \/ SendMessageReturn
    \/ StartListen
    \/ BroadcastCall
    \/ Receive
    \/ ListenerLock
    \/ ListenerNext
    \/ ListenerWritten
    \/ ListenerExit
    \/ CloseCall
    \/ CloseSweep

SpecWS == InitWS /\ [][NextWS]_vars

\* The goroutines of the manager keep running: a step that a goroutine can
\* take without waiting for the application or the peer is taken in the end.
\* What the application calls and when (Upgrade, SendMessage, Broadcast,
\* Close, starting ListenBroadcasts), ticks and inbound messages are not
\* forced
FairSpecWS ==
    /\ SpecWS
    /\ WF_vars(Receive)
    /\ WF_vars(ListenerLock)
    /\ WF_vars(ListenerNext)
    /\ WF_vars(ListenerWritten)
    /\ WF_vars(ListenerExit)
    /\ WF_vars(PingWritten)
    /\ WF_vars(PingStop)
    /\ WF_vars(PongWritten)
    /\ WF_vars(RecvCleanup)
    /\ WF_vars(SendMessageReturn)
    /\ WF_vars(CloseSweep)

\* the session loop is running (the spec's Running state)
Running == pc \in {"arm", "select", "dispatch"}

TypeOK ==
    /\ pc \in {"start", "connect", "newClient", "arm", "select", "dispatch",
               "returned", "exited", "panicked"}
    /\ tickReady \in BOOLEAN
    /\ toTick \in 1..heartbeatInterval
    /\ deadline \in -1..readTimeout
    /\ cacheLeft \in -1..cacheExpiry
    /\ dialFails \in 0..MaxDialFails
    /\ slept \in 0..(dialBackoff * MaxDialFails)
    /\ issued \subseteq GenIds
    /\ timeouts \in 0..MaxStreak
    /\ beats \in 0..MaxStreak

\* ----------------------------------------------------------------- claims
InLog(e) == \E i \in 1..Len(logged) : logged[i] = e
Did(s) == \E i \in 1..Len(steps) : steps[i] = s
\* a frame has been read and its handling has ended
Handled == msg.Raw # NilPtr /\ pc # "dispatch"
\* the frame read carries a request_id this side generated
CarriesIssuedId ==
    /\ msg.Raw # NilPtr
    /\ msg.Raw.hasId
    /\ msg.Raw.request_id # ""
    /\ msg.Raw.request_id \in issued

\* C1: an inbound frame carrying a non-empty request_id that this side
\* generated is classified as a Response (never as a Request) and no handler
\* is resolved or invoked for it, at any point of its handling.
C1_ResponseNeverDispatched ==
    CarriesIssuedId => (msg.Response # NilPtr /\ msg.Request = NilPtr /\ calls = <<>>)

\* a frame carrying an issued id has been read and handled to the end
C1_Witness == CarriesIssuedId /\ Handled

\* the envelope of the round trip scenario
RoundTripFrame ==
    [valid |-> TRUE, hasId |-> TRUE, request_id |-> "r1",
     type |-> "client_to_server", action |-> "list_model", params |-> NoParams]

\* C2: once {type: client_to_server, action: list_model, request_id: r1} has
\* been handled with no backend or write failure, exactly one envelope has
\* been written: type client_to_server, action list_model, request_id r1,
\* data the backend's list, status done.
C2_RoundTrip ==
    (Handled /\ msg.Raw = RoundTripFrame /\ logged = <<>>)
    => \E l \in ModelLists :
          out = <<[type |-> "client_to_server", action |-> "list_model",
                   request_id |-> "r1",
                   data |-> [kind |-> "models", list |-> l],
                   status |-> "done"]>>

\* C3: an iteration whose heartbeat send failed leaves the session not
\* Running, and Run has returned the write error to its caller.
C3_HeartbeatFailureFatal ==
    (Did("heartbeat") /\ InLog(ErrWrite)) => (~Running /\ runErr = ErrWrite)

\* C4: when a handler succeeded and writing its Response failed, the session
\* is no longer Running and Run has returned the write error.
C4_ResponseWriteFailureFatal ==
    (Handled /\ calls # <<>> /\ InLog(ErrWrite)) => (~Running /\ runErr = ErrWrite)

\* C5: after a read failed with an error that is not a timeout the session
\* is no longer Running: the loop has stopped.
C5_ReadErrorFatal == InLog(ErrRead) => ~Running

C7_MalformedFrameSurvives ==
    (Handled /\ ~msg.Raw.valid)
    => (Len(logged) = 1 /\ out = <<>> /\ ~connClosed /\ pc = "arm")

\* C8: no inbound frame makes the session loop panic.
C8_NoPanic == pc # "panicked"

\* C9: every action tag other than list_model and chat resolves to a
\* handler, the default one, whose Handle returns an error and no Response
\* whatever the request; dispatching such a request calls that handler only,
\* logs its error and writes nothing.
C9_UnknownActionErrors ==
    /\ \A a \in ActionTags \cup {"nonexistent-action"} :
          a \notin {"list_model", "chat"}
          => /\ CreateHandler(a) # Nil
             /\ \A t \in TypeTags, b \in BackendResults("ListModelHandler") :
                   LET h == Handle(CreateHandler(a),
                                   [Type |-> t, Action |-> a, RequestID |-> ""], b)
                   IN  h.err # Nil /\ h.resp = NilPtr
    /\ (Handled /\ msg.Request # NilPtr
        /\ msg.Request.Action \notin {"", "list_model", "chat"})
       => (calls = <<"DefaultHandler">> /\ logged = <<ErrUnknownAction>> /\ out = <<>>)

\* a request with an unknown action has been dispatched
C9_Witness ==
    Handled /\ msg.Request # NilPtr /\ msg.Request.Action = "ping" /\ calls # <<>>

\* C10: when Handle returned an error for a dispatched request (backend
\* failure or unknown action), nothing was written on the Conn in that
\* iteration, the error was logged once, and the loop is back at its top.
C10_HandlerErrorDropsRequest ==
    (Handled /\ calls # <<>> /\ (InLog(ErrBackend) \/ InLog(ErrUnknownAction)))
    => (out = <<>> /\ Len(logged) = 1 /\ pc = "arm" /\ runErr = Nil)

\* a list_model request whose backend call failed has been handled
C10_Witness ==
    Handled /\ calls = <<"ListModelHandler">> /\ InLog(ErrBackend)

\* C11: the heartbeat is never starved by inbound traffic. A read starts
\* only from the select and only when no tick is buffered; when a tick is
\* buffered at the select, the step taken is the heartbeat; an iteration
\* never both sends a heartbeat and reads.
C11_HeartbeatNotStarved ==
    /\ [][(Did("read")' /\ ~Did("read")) => (pc = "select" /\ ~tickReady)]_vars
    /\ [][(pc = "select" /\ tickReady) => (Did("heartbeat")' /\ ~Did("read")')]_vars
    /\ [](~(Did("heartbeat") /\ Did("read")))

\* a tick fell due while a request was being served, and the next iteration
\* sent the heartbeat instead of reading
C11_Witness ==
    /\ pc = "arm"
    /\ Did("heartbeat")
    /\ out # <<>>
    /\ timeouts = 0

\* C12: when Run has returned a session-level error the driver dials again:
\* the step after Run's return leads back to the connect loop, not to the
\* end of the process.
C12_RedialAfterSession == [][pc = "returned" => pc' = "connect"]_vars

\* C13: dial failures never end the process and each is followed by one
\* sleep of dialBackoff; the session loop runs only once a dial succeeded.
C13_DialRetried ==
    /\ slept = dialBackoff * dialFails
    /\ (pc = "connect" => ~connected)
    /\ (pc \in {"newClient", "arm", "select", "dispatch", "returned", "panicked"} => connected)
    /\ (pc = "exited" /\ ~connected => dialFails = 0)

\* the dial failed twice, then succeeded, and the session loop is running
C13_Witness == dialFails = 2 /\ slept = 2 * dialBackoff /\ connected /\ pc = "select"

\* C14: when the process has ended after Run returned, the Conn has been
\* closed.
C14_ConnClosedAfterSession == (pc = "exited" /\ runErr # Nil) => connClosed

\* requests a handler can be given
Requests ==
    [Type : TypeTags \cup {""}, Action : {"list_model", "chat"}, RequestID : FrameIds]

\* C19: whenever the list or the chat handler succeeds, its Response has the
\* request's action and request_id, the type client_to_server whatever the
\* request's type, and the status done; and the envelope written for a
\* served request carries them.
C19_ResponseEchoesRequest ==
    /\ \A req \in Requests :
          \A b \in BackendResults(CreateHandler(req.Action)) :
             LET h == Handle(CreateHandler(req.Action), req, b) IN
             h.err = Nil
             => /\ h.resp.Action = req.Action
                /\ h.resp.RequestID = req.RequestID
                /\ h.resp.Type = "client_to_server"
                /\ h.resp.Status = "done"
    /\ (Handled /\ calls # <<>> /\ logged = <<>>)
       => /\ Len(out) = 1
          /\ out[1].type = "client_to_server"
          /\ out[1].action = msg.Request.Action
          /\ out[1].status = "done"
          /\ ("request_id" \in DOMAIN out[1]) = (msg.Request.RequestID # "")

\* a chat request of type heartbeat has been answered
C19_Witness ==
    /\ Handled
    /\ msg.Raw.type = "heartbeat"
    /\ calls = <<"ChatHandler">>
    /\ Len(out) = 1

\* C20 as stated: every frame classified as a Request has exactly one
\* handler resolved and invoked, whatever its action.
C20_DispatchTotal ==
    (Handled /\ msg.Request # NilPtr) => Len(calls) = 1

\* C20 as amended: a Request with a non-empty action has exactly one handler
\* resolved by its action and invoked once (the default handler for unknown
\* tags); a Request with an empty action is turned away with an error before
\* any handler is resolved, and nothing is written for it.
C20_DispatchTotalForNonEmptyAction ==
    (Handled /\ msg.Request # NilPtr)
    => IF msg.Request.Action = ""
       THEN calls = <<>> /\ logged = <<ErrActionEmpty>> /\ out = <<>>
       ELSE calls = <<CASE msg.Request.Action = "list_model" -> "ListModelHandler"
                        [] msg.Request.Action = "chat"       -> "ChatHandler"
                        [] OTHER                             -> "DefaultHandler">>

\* a Request with an empty action has been turned away
C20_Witness ==
    /\ Handled
    /\ msg.Request # NilPtr
    /\ msg.Request.Action = ""
    /\ logged = <<ErrActionEmpty>>

\* two goroutines are inside the maps at once and one of them is writing
DataRace ==
    \E g, h \in Goroutines :
        /\ g # h
        /\ cmBusy[g] = "write"
        /\ cmBusy[h] # "none"

\* C15: every read and every mutation of cm.connections and cm.groups is made
\* by the goroutine that holds cm.mu, and no two goroutines are inside the maps
\* at once with one of them writing
C15_MapsGuardedByMutex ==
    /\ \A g \in Goroutines : cmBusy[g] # "none" => mu = g
    /\ ~DataRace

\* Encrypt and then Decrypt of its result have both been called
RoundTripDone == encrypted # NotCalled /\ decrypted # NotCalled

C17_OtherKeyRejected ==
    (RoundTripDone /\ key # key2) => (decrypted.err # Nil /\ decrypted.val = <<>>)

\* Encrypt succeeded under one generated key and Decrypt of its result was
\* called with the other
C17_Witness ==
    /\ RoundTripDone
    /\ key \in NewDecryptKeys
    /\ key2 \in NewDecryptKeys
    /\ Len(key) = keySize
    /\ Len(key2) = keySize
    /\ key # key2
    /\ plaintext # <<>>
    /\ encrypted.err = Nil
    /\ decrypted.err = ErrAuth

\* C18: Encrypt and Decrypt return an error and the empty string for every key
\* whose length is not 16, 24 or 32 bytes, and Decrypt returns an error for the
\* empty ciphertext and for every ciphertext that decodes to fewer than 12 bytes
C18_BadKeyAndShortInputRejected ==
    /\ (encrypted # NotCalled /\ Len(key) \notin {16, 24, 32}) =>
          (encrypted.err # Nil /\ encrypted.val = <<>>)
    /\ (decrypted # NotCalled /\ Len(key2) \notin {16, 24, 32}) =>
          (decrypted.err # Nil /\ decrypted.val = <<>>)
    /\ (decrypted # NotCalled /\ ciphertext = <<>>) => decrypted.err # Nil
    /\ (decrypted # NotCalled /\ DecodeString(ciphertext).err = Nil
            /\ Len(DecodeString(ciphertext).bytes) < 12) => decrypted.err # Nil

\* Decrypt of the encoding of eleven bytes was called with a key of 15 bytes
C18_Witness ==
    /\ decrypted # NotCalled
    /\ Len(key2) = 15
    /\ DecodeString(ciphertext).err = Nil
    /\ Len(DecodeString(ciphertext).bytes) = 11
    /\ decrypted = [val |-> <<>>, err |-> ErrTooShort]

\* the backend Chat call c was given the model and the messages of params p
SamePayload(c, p) ==
    /\ c.model = p.model_name
    /\ Len(c.messages) = Len(p.messages)
    /\ \A i \in 1..Len(p.messages) :
          /\ c.messages[i].Role = p.messages[i].role
          /\ c.messages[i].Content = p.messages[i].content

\* C21: when a chat request carries params.model_name = m and
\* params.messages = M, the chat handler calls the backend Chat operation with
\* model m and messages M, same roles and contents in the same order
C21_ChatPayloadReachesBackend ==
    (Handled /\ calls = <<"ChatHandler">>) =>
        /\ Len(backend) = 1
        /\ backend[1].op = "Chat"
        /\ SamePayload(backend[1], msg.Raw.params)

\* C22: each iteration of Server.Run first arms the read deadline and then
\* does exactly one of two things, a heartbeat or one read with its outcome;
\* never both, and no read starts unless the deadline was armed anew in that
\* iteration
C22_ArmThenOneEvent ==
    /\ steps \in {<<>>, <<"arm">>, <<"arm", "heartbeat">>, <<"arm", "read">>}
    /\ pc = "select" => (steps = <<"arm">> /\ deadline = readTimeout)
    /\ Did("read") => ~InLog(ErrDeadline)
    /\ pc = "dispatch" => steps = <<"arm", "read">>
    /\ (pc = "arm" /\ steps # <<>>) => Len(steps) = 2

\* an iteration that armed the deadline, read one request and served it
C22_Witness ==
    /\ pc = "arm"
    /\ steps = <<"arm", "read">>
    /\ msg.Request # NilPtr
    /\ calls # <<>>
    /\ ~tickReady

\* the response envelopes among the bytes written in this iteration
Responses == SelectSeq(out, LAMBDA e : e.type = "client_to_server")

\* C23: dispatch is synchronous. A request is read only when nothing of an
\* earlier one is pending; at most one handler call is made for it; the only
\* response written while it is the current message is its own; and when its
\* handling succeeded the response is on the Conn before the loop comes round
\* to the next read
C23_ResponsesInArrivalOrder ==
    /\ [][(msg' # msg /\ msg'.Raw # NilPtr) =>
              (pc = "select" /\ msg = NoMsg /\ out = <<>> /\ calls = <<>> /\ backend = <<>>)]_vars
    /\ [](Len(calls) <= 1 /\ Len(backend) <= 1 /\ Len(Responses) <= 1)
    /\ [](Responses # <<>> =>
              (msg.Request # NilPtr /\ Responses[1].action = msg.Request.Action))
    /\ []((pc = "arm" /\ calls # <<>> /\ logged = <<>>) => Responses # <<>>)

\* a second request of the session has been answered after an earlier one
C23_Witness ==
    /\ answered
    /\ pc = "arm"
    /\ msg.Request # NilPtr
    /\ Len(Responses) = 1
    /\ Responses[1].action = msg.Request.Action

\* C24: ListModels with an entry for "models" in the cache returns the cached
\* list and does not call the backend; without one it calls the backend once,
\* and only when that succeeds stores the result with the 120 s expiry and
\* returns it; a backend error is returned and leaves the cache as it was
C24_ListModelsCache ==
    [][(pc = "dispatch" /\ calls' = <<"ListModelHandler">>) =>
          IF cacheLeft >= 0
          THEN /\ backend' = <<>>
               /\ cacheLeft' = cacheLeft
               /\ cacheVal' = cacheVal
               /\ \A i \in 1..Len(logged') : logged'[i] # ErrBackend
               /\ out' # <<>> => out'[1].data = [kind |-> "models", list |-> cacheVal]
          ELSE /\ Len(backend') = 1
               /\ backend'[1].op = "List"
               /\ IF backend'[1].err = Nil
                  THEN /\ cacheLeft' = cacheExpiry
                       /\ cacheVal' = backend'[1].val
                       /\ out' # <<>> =>
                             out'[1].data = [kind |-> "models", list |-> backend'[1].val]
                  ELSE /\ logged' = <<backend'[1].err>>
                       /\ out' = <<>>
                       /\ cacheLeft' = -1
                       /\ cacheVal' = cacheVal]_vars

\* a list_model request answered from the cache, some time after it was filled
C24_Witness ==
    /\ pc = "arm"
    /\ calls = <<"ListModelHandler">>
    /\ backend = <<>>
    /\ cacheLeft >= 0
    /\ cacheLeft < cacheExpiry
    /\ Len(out) = 1
    /\ out[1].data = [kind |-> "models", list |-> cacheVal]

\* C25: Server.Run returns only when SetReadDeadline fails, and returns that
\* error; after a failed heartbeat send, a read timeout, any other read error,
\* a handler error or a failed response send the loop starts another iteration
C25_RunReturnsOnlyOnDeadlineError ==
    /\ [](runErr # Nil => runErr = ErrDeadline)
    /\ [](pc = "returned" => (runErr = ErrDeadline /\ steps = <<"arm">>))
    /\ [][(pc \in {"select", "dispatch"} /\ logged' # logged) => pc' = "arm"]_vars

\* Run has returned the SetReadDeadline error after a row of read timeouts
\* with a heartbeat among them
C25_Witness ==
    /\ pc = "returned"
    /\ runErr = ErrDeadline
    /\ timeouts >= 2
    /\ beats >= 1

\* C26: at most one goroutine is inside a write on a given connection at any
\* time, whether it is the ping task, the broadcast fan-out, the pong reply of
\* receiveMessages or SendMessage
C26_OneWriterPerConn ==
    \A g, h \in WSGoroutines :
        (g # h /\ wsConn[g] # "") => wsConn[g] # wsConn[h]

\* C27: every call of Broadcast returns in the end, also after Close and also
\* when ListenBroadcasts was never started
C27_BroadcastReturns ==
    (wsPc[Caller] = "sending") ~> (wsPc[Caller] = "returned")

====
